---- MODULE Spec2Model ----
(***************************************************************************)
(* Model of the text editor with AI ghost-text completion                  *)
(* (src/text_autocomplete.py, src/ai_completer.py, src/config_manager.py). *)
(*                                                                         *)
(* A string is a sequence of one-character strings.  Rows and columns are  *)
(* 0-based as in the source; lines[y + 1] is the source's lines[y].        *)
(* Times are integer milliseconds (the source holds float seconds).        *)
(***************************************************************************)
EXTENDS Integers, Sequences, FiniteSets, TLC

(* ------------------------------ bounds --------------------------------- *)
\* most lines the buffer may grow to
MaxLines == 2
\* most characters the whole buffer may grow to
MaxChars == 3
\* clock readings are StartTime + n * ClockStep, n <= MaxTicks
MaxTicks == 5
\* milliseconds between two clock readings the model tells apart
ClockStep == 50
\* a direct call of move_cursor passes dy and dx in -MaxMove .. MaxMove
MaxMove == 2
\* the longer runs read the clock up to StartTime + MaxWait * ClockStep
MaxWait == 10
\* largest small max_chars passed to get_context_before_cursor
MaxContext == 3
\* lines of the long file beyond the ContextLines the context may hold
ExtraLines == 2

(* ------------------------- program constants --------------------------- *)
\* Config.pause_delay_ms default
pause_delay_ms == 200
\* AICompleter.min_request_interval (0.5 s)
min_request_interval == 500
\* get_context_before_cursor: number of preceding lines, default max_chars
ContextLines == 10
ContextMaxChars == 500

\* the clock reading (time.time()) when the editor is constructed: seconds since
\* the epoch, far more than min_request_interval
StartTime == 2 * min_request_interval

(* ------------------------------ strings -------------------------------- *)
NL == "\n"
Whitespace == {" ", NL}
\* characters the keyboard branch 32 <= key <= 126 can deliver
TypedChars == {"a", " "}

Min(a, b) == IF a < b THEN a ELSE b
Max(a, b) == IF a > b THEN a ELSE b

\* Python s[:n] for n >= 0 (the slice clamps to the string)
Prefix(s, n) == SubSeq(s, 1, Min(Max(n, 0), Len(s)))
\* Python s[n:] for n >= 0
Suffix(s, n) == SubSeq(s, Min(Max(n, 0), Len(s)) + 1, Len(s))

RECURSIVE Join(_)
\* '\n'.join(ls)
Join(ls) ==
  IF Len(ls) = 0 THEN <<>>
  ELSE IF Len(ls) = 1 THEN ls[1]
  ELSE ls[1] \o <<NL>> \o Join(Tail(ls))

RECURSIVE Split(_)
\* s.split('\n'): always at least one field
Split(s) ==
  IF \A i \in 1..Len(s) : s[i] # NL THEN <<s>>
  ELSE LET k == CHOOSE i \in 1..Len(s) : s[i] = NL /\ \A j \in 1..(i - 1) : s[j] # NL
       IN <<SubSeq(s, 1, k - 1)>> \o Split(SubSeq(s, k + 1, Len(s)))

RECURSIVE LStrip(_)
LStrip(s) == IF s # <<>> /\ Head(s) \in Whitespace THEN LStrip(Tail(s)) ELSE s
RECURSIVE RStrip(_)
RStrip(s) ==
  IF s # <<>> /\ s[Len(s)] \in Whitespace THEN RStrip(SubSeq(s, 1, Len(s) - 1)) ELSE s
\* s.strip()
Strip(s) == RStrip(LStrip(s))

(* ------------------------------- state --------------------------------- *)
VARIABLES
  lines,                 \* TextEditor.lines
  cursor_y, cursor_x,    \* TextEditor.cursor_y / cursor_x
  suggestion,            \* TextEditor.suggestion ("" is <<>>)
  suggestion_match_pos,  \* TextEditor.suggestion_match_pos
  last_input_time,       \* TextEditor.last_input_time
  ai_enabled,            \* TextEditor.ai_enabled
  requesting_completion, \* TextEditor.requesting_completion
  modified,              \* TextEditor.modified
  status_message,        \* TextEditor.status_message
  filename,              \* TextEditor.filename (NoName is None)
  client,                \* AICompleter.client is not None
  last_request_time,     \* AICompleter.last_request_time
  now,                   \* the clock, time.time()
  key,                   \* the key handle_input read last, or the method of
                         \* TextEditor a caller invoked last
  outcome,               \* the branch the last handle_input took for that key
  running                \* FALSE once handle_input has returned False

vars == <<lines, cursor_y, cursor_x, suggestion, suggestion_match_pos,
          last_input_time, ai_enabled, requesting_completion, modified,
          status_message, filename, client, last_request_time, now, key,
          outcome, running>>

NoName == "None"
(* --------------------------- buffer helpers ---------------------------- *)
\* TextEditor.get_current_line
get_current_line ==
  IF cursor_y >= 0 /\ cursor_y < Len(lines) THEN lines[cursor_y + 1] ELSE <<>>

\* self.lines[y] = new_line
SetLine(ls, y, new_line) == [ls EXCEPT ![y + 1] = new_line]

\* del self.lines[y]
DelLine(ls, y) == SubSeq(ls, 1, y) \o SubSeq(ls, y + 2, Len(ls))

\* self.lines.insert(y, line)
InsLine(ls, y, line) == SubSeq(ls, 1, y) \o <<line>> \o SubSeq(ls, y + 1, Len(ls))

RECURSIVE TotalChars(_)
TotalChars(ls) == IF ls = <<>> THEN 0 ELSE Len(Head(ls)) + TotalChars(Tail(ls))

\* Python s[-n:]: the last n characters for n > 0 (the slice clamps to the
\* string); the whole string for n = 0, -0 being 0; s[k:] for n = -k < 0
LastChars(s, n) ==
  IF n > 0 THEN SubSeq(s, Max(Len(s) - n, 0) + 1, Len(s))
  ELSE Suffix(s, 0 - n)

\* the text get_context_before_cursor joins: the lines before the cursor row,
\* ContextLines of them at most, and the current line up to the cursor
ContextText ==
  LET first == Max(0, cursor_y - ContextLines)
      context_lines == SubSeq(lines, first + 1, cursor_y)
                         \o <<Prefix(get_current_line, cursor_x)>>
  IN Join(context_lines)

\* TextEditor.get_context_before_cursor
get_context_before_cursor(max_chars) ==
  LET context == ContextText
  IN IF Len(context) > max_chars
       THEN LastChars(context, max_chars)
       ELSE context

(* ------------------------- suggestion engine --------------------------- *)
\* check_suggestion_match forgetting to advance the match position
check_suggestion_match_stays(sugg, pos, char) ==
  IF sugg = <<>> THEN [text |-> sugg, pos |-> pos, branch |-> "plain"]
  ELSE IF pos < Len(sugg)
    THEN IF sugg[pos + 1] = char
           THEN [text |-> sugg, pos |-> pos, branch |-> "match"]
           ELSE [text |-> <<>>, pos |-> 0, branch |-> "mismatch"]
    ELSE [text |-> <<>>, pos |-> 0, branch |-> "overrun"]

\* check_suggestion_match restarting the match on a mismatch, not dropping it
check_suggestion_match_restarts(sugg, pos, char) ==
  IF sugg = <<>> THEN [text |-> sugg, pos |-> pos, branch |-> "plain"]
  ELSE IF pos < Len(sugg)
    THEN IF sugg[pos + 1] = char
           THEN [text |-> sugg, pos |-> pos + 1, branch |-> "match"]
           ELSE [text |-> sugg, pos |-> 0, branch |-> "mismatch"]
    ELSE [text |-> <<>>, pos |-> 0, branch |-> "overrun"]

\* TextEditor.check_suggestion_match: the new suggestion and match position,
\* and the branch taken
check_suggestion_match(sugg, pos, char) ==
  IF sugg = <<>> THEN [text |-> sugg, pos |-> pos, branch |-> "plain"]
  ELSE IF pos < Len(sugg)
    THEN IF sugg[pos + 1] = char
           THEN [text |-> sugg, pos |-> pos + 1, branch |-> "match"]
           ELSE [text |-> <<>>, pos |-> 0, branch |-> "mismatch"]
    ELSE [text |-> <<>>, pos |-> 0, branch |-> "overrun"]

\* accept_suggestion inserting the whole suggestion, the retyped part included
accept_suggestion_whole ==
  IF suggestion = <<>>
    THEN /\ outcome' = "nothing"
         /\ UNCHANGED <<lines, cursor_x, modified, suggestion, suggestion_match_pos>>
    ELSE LET remaining == suggestion
             current_line == get_current_line
             new_line == Prefix(current_line, cursor_x) \o remaining
                           \o Suffix(current_line, cursor_x)
         IN /\ lines' = SetLine(lines, cursor_y, new_line)
            /\ cursor_x' = cursor_x + Len(remaining)
            /\ modified' = TRUE
            /\ suggestion' = <<>>
            /\ suggestion_match_pos' = 0
            /\ outcome' = "accepted"

\* accept_suggestion leaving the cursor one column past the inserted text
accept_suggestion_past_end ==
  IF suggestion = <<>>
    THEN /\ outcome' = "nothing"
         /\ UNCHANGED <<lines, cursor_x, modified, suggestion, suggestion_match_pos>>
    ELSE LET remaining == Suffix(suggestion, suggestion_match_pos)
             current_line == get_current_line
             new_line == Prefix(current_line, cursor_x) \o remaining
                           \o Suffix(current_line, cursor_x)
         IN IF remaining = <<>>
              THEN /\ suggestion' = <<>>
                   /\ outcome' = "exhausted"
                   /\ UNCHANGED <<lines, cursor_x, modified, suggestion_match_pos>>
              ELSE /\ lines' = SetLine(lines, cursor_y, new_line)
                   /\ cursor_x' = cursor_x + Len(remaining) + 1
                   /\ modified' = TRUE
                   /\ suggestion' = <<>>
                   /\ suggestion_match_pos' = 0
                   /\ outcome' = "accepted"

\* accept_suggestion without its two early returns
accept_suggestion_unguarded ==
  LET remaining == Suffix(suggestion, suggestion_match_pos)
      current_line == get_current_line
      new_line == Prefix(current_line, cursor_x) \o remaining
                    \o Suffix(current_line, cursor_x)
  IN /\ lines' = SetLine(lines, cursor_y, new_line)
     /\ cursor_x' = cursor_x + Len(remaining)
     /\ modified' = TRUE
     /\ suggestion' = <<>>
     /\ suggestion_match_pos' = 0
     /\ outcome' = IF suggestion = <<>> THEN "nothing" ELSE "accepted"

\* TextEditor.accept_suggestion
accept_suggestion ==
  IF suggestion = <<>>
    THEN /\ outcome' = "nothing"
         /\ UNCHANGED <<lines, cursor_x, modified, suggestion, suggestion_match_pos>>
    ELSE LET remaining == Suffix(suggestion, suggestion_match_pos)
             current_line == get_current_line
             new_line == Prefix(current_line, cursor_x) \o remaining
                           \o Suffix(current_line, cursor_x)
         IN IF remaining = <<>>
              THEN /\ suggestion' = <<>>
                   /\ outcome' = "exhausted"
                   /\ UNCHANGED <<lines, cursor_x, modified, suggestion_match_pos>>
              ELSE /\ lines' = SetLine(lines, cursor_y, new_line)
                   /\ cursor_x' = cursor_x + Len(remaining)
                   /\ modified' = TRUE
                   /\ suggestion' = <<>>
                   /\ suggestion_match_pos' = 0
                   /\ outcome' = "accepted"

(* --------------------------- buffer edits ------------------------------ *)
\* insert_char handing over, with the character, the result of a request made
\* before the character was typed
insert_char_delivers(char) ==
  LET current_line == get_current_line
      new_line == Prefix(current_line, cursor_x) \o <<char>>
                    \o Suffix(current_line, cursor_x)
      m == check_suggestion_match(suggestion, suggestion_match_pos, char)
  IN /\ lines' = SetLine(lines, cursor_y, new_line)
     /\ cursor_x' = cursor_x + 1
     /\ modified' = TRUE
     /\ suggestion' = IF m.text = <<>> THEN <<" ", "a">> ELSE m.text
     /\ suggestion_match_pos' = IF m.text = <<>> THEN 0 ELSE m.pos
     /\ outcome' = m.branch
     /\ last_input_time' = now
     /\ UNCHANGED cursor_y

\* TextEditor.insert_char
insert_char(char) ==
  LET current_line == get_current_line
      new_line == Prefix(current_line, cursor_x) \o <<char>>
                    \o Suffix(current_line, cursor_x)
      m == check_suggestion_match(suggestion, suggestion_match_pos, char)
  IN /\ lines' = SetLine(lines, cursor_y, new_line)
     /\ cursor_x' = cursor_x + 1
     /\ modified' = TRUE
     /\ suggestion' = m.text
     /\ suggestion_match_pos' = m.pos
     /\ outcome' = m.branch
     /\ last_input_time' = now
     /\ UNCHANGED cursor_y

\* delete_char leaving the cursor, after a join, at the end of the joined line
delete_char_cursor_at_end ==
  IF cursor_x > 0
    THEN LET current_line == get_current_line
             new_line == Prefix(current_line, cursor_x - 1)
                           \o Suffix(current_line, cursor_x)
         IN /\ lines' = SetLine(lines, cursor_y, new_line)
            /\ cursor_x' = cursor_x - 1
            /\ modified' = TRUE
            /\ suggestion' = <<>>
            /\ suggestion_match_pos' = 0
            /\ last_input_time' = now
            /\ outcome' = "deleted"
            /\ UNCHANGED cursor_y
    ELSE IF cursor_y > 0
      THEN LET previous_line == lines[cursor_y]
               current_line == get_current_line
           IN /\ lines' = DelLine(SetLine(lines, cursor_y - 1,
                                          previous_line \o current_line), cursor_y)
              /\ cursor_y' = cursor_y - 1
              /\ cursor_x' = Len(previous_line \o current_line)
              /\ modified' = TRUE
              /\ suggestion' = <<>>
              /\ suggestion_match_pos' = 0
              /\ last_input_time' = now
              /\ outcome' = "joined"
      ELSE /\ outcome' = "noop"
           /\ UNCHANGED <<lines, cursor_y, cursor_x, modified, suggestion,
                          suggestion_match_pos, last_input_time>>

\* delete_char leaving the suggestion and its match position in place
delete_char_keeps_suggestion ==
  IF cursor_x > 0
    THEN LET current_line == get_current_line
             new_line == Prefix(current_line, cursor_x - 1)
                           \o Suffix(current_line, cursor_x)
         IN /\ lines' = SetLine(lines, cursor_y, new_line)
            /\ cursor_x' = cursor_x - 1
            /\ modified' = TRUE
            /\ last_input_time' = now
            /\ outcome' = "deleted"
            /\ UNCHANGED <<cursor_y, suggestion, suggestion_match_pos>>
    ELSE IF cursor_y > 0
      THEN LET previous_line == lines[cursor_y]
               current_line == get_current_line
           IN /\ lines' = DelLine(SetLine(lines, cursor_y - 1,
                                          previous_line \o current_line), cursor_y)
              /\ cursor_y' = cursor_y - 1
              /\ cursor_x' = Len(previous_line)
              /\ modified' = TRUE
              /\ last_input_time' = now
              /\ outcome' = "joined"
              /\ UNCHANGED <<suggestion, suggestion_match_pos>>
      ELSE /\ outcome' = "noop"
           /\ UNCHANGED <<lines, cursor_y, cursor_x, modified, suggestion,
                          suggestion_match_pos, last_input_time>>

\* TextEditor.delete_char
delete_char ==
  IF cursor_x > 0
    THEN LET current_line == get_current_line
             new_line == Prefix(current_line, cursor_x - 1)
                           \o Suffix(current_line, cursor_x)
         IN /\ lines' = SetLine(lines, cursor_y, new_line)
            /\ cursor_x' = cursor_x - 1
            /\ modified' = TRUE
            /\ suggestion' = <<>>
            /\ suggestion_match_pos' = 0
            /\ last_input_time' = now
            /\ outcome' = "deleted"
            /\ UNCHANGED cursor_y
    ELSE IF cursor_y > 0
      THEN LET previous_line == lines[cursor_y]
               current_line == get_current_line
           IN /\ lines' = DelLine(SetLine(lines, cursor_y - 1,
                                          previous_line \o current_line), cursor_y)
              /\ cursor_y' = cursor_y - 1
              /\ cursor_x' = Len(previous_line)
              /\ modified' = TRUE
              /\ suggestion' = <<>>
              /\ suggestion_match_pos' = 0
              /\ last_input_time' = now
              /\ outcome' = "joined"
      ELSE /\ outcome' = "noop"
           /\ UNCHANGED <<lines, cursor_y, cursor_x, modified, suggestion,
                          suggestion_match_pos, last_input_time>>

\* insert_newline leaving the whole line in place above the new line
insert_newline_keeps_tail ==
  LET current_line == get_current_line
      after == Suffix(current_line, cursor_x)
  IN /\ lines' = InsLine(lines, cursor_y + 1, after)
     /\ cursor_y' = cursor_y + 1
     /\ cursor_x' = 0
     /\ modified' = TRUE
     /\ suggestion' = <<>>
     /\ suggestion_match_pos' = 0
     /\ last_input_time' = now

\* TextEditor.insert_newline
insert_newline ==
  LET current_line == get_current_line
      before == Prefix(current_line, cursor_x)
      after == Suffix(current_line, cursor_x)
  IN /\ lines' = InsLine(SetLine(lines, cursor_y, before), cursor_y + 1, after)
     /\ cursor_y' = cursor_y + 1
     /\ cursor_x' = 0
     /\ modified' = TRUE
     /\ suggestion' = <<>>
     /\ suggestion_match_pos' = 0
     /\ last_input_time' = now

\* move_cursor wrapping to the end of the previous line on a move to the left
\* of column 0
move_cursor_wraps(dy, dx) ==
  LET new_y == Max(0, Min(Len(lines) - 1, cursor_y + dy))
      line_y == IF new_y >= 0 /\ new_y < Len(lines) THEN lines[new_y + 1] ELSE <<>>
      x1 == IF new_y # cursor_y THEN Min(cursor_x, Len(line_y)) ELSE cursor_x
      x2 == IF dx # 0 THEN Max(0, Min(Len(line_y), x1 + dx)) ELSE x1
      wrap == dx < 0 /\ x1 + dx < 0 /\ new_y > 0
  IN /\ IF dy # 0 \/ dx < 0
          THEN suggestion' = <<>> /\ suggestion_match_pos' = 0
          ELSE UNCHANGED <<suggestion, suggestion_match_pos>>
     /\ cursor_y' = IF wrap THEN new_y - 1 ELSE new_y
     /\ cursor_x' = IF wrap THEN Len(lines[new_y]) ELSE x2

\* move_cursor dropping the suggestion only when the cursor has moved
move_cursor_clears_if_moved(dy, dx) ==
  LET new_y == Max(0, Min(Len(lines) - 1, cursor_y + dy))
      line_y == IF new_y >= 0 /\ new_y < Len(lines) THEN lines[new_y + 1] ELSE <<>>
      x1 == IF new_y # cursor_y THEN Min(cursor_x, Len(line_y)) ELSE cursor_x
      x2 == IF dx # 0 THEN Max(0, Min(Len(line_y), x1 + dx)) ELSE x1
  IN /\ IF (dy # 0 \/ dx < 0) /\ (new_y # cursor_y \/ x2 # cursor_x)
          THEN suggestion' = <<>> /\ suggestion_match_pos' = 0
          ELSE UNCHANGED <<suggestion, suggestion_match_pos>>
     /\ cursor_y' = new_y
     /\ cursor_x' = x2

\* move_cursor without the re-clamp of the column on the new row
move_cursor_keeps_column(dy, dx) ==
  LET new_y == Max(0, Min(Len(lines) - 1, cursor_y + dy))
      line_y == IF new_y >= 0 /\ new_y < Len(lines) THEN lines[new_y + 1] ELSE <<>>
      x2 == IF dx # 0 THEN Max(0, Min(Len(line_y), cursor_x + dx)) ELSE cursor_x
  IN /\ IF dy # 0 \/ dx < 0
          THEN suggestion' = <<>> /\ suggestion_match_pos' = 0
          ELSE UNCHANGED <<suggestion, suggestion_match_pos>>
     /\ cursor_y' = new_y
     /\ cursor_x' = x2

\* TextEditor.move_cursor
move_cursor(dy, dx) ==
  LET new_y == Max(0, Min(Len(lines) - 1, cursor_y + dy))
      line_y == IF new_y >= 0 /\ new_y < Len(lines) THEN lines[new_y + 1] ELSE <<>>
      x1 == IF new_y # cursor_y THEN Min(cursor_x, Len(line_y)) ELSE cursor_x
      x2 == IF dx # 0 THEN Max(0, Min(Len(line_y), x1 + dx)) ELSE x1
  IN /\ IF dy # 0 \/ dx < 0
          THEN suggestion' = <<>> /\ suggestion_match_pos' = 0
          ELSE UNCHANGED <<suggestion, suggestion_match_pos>>
     /\ cursor_y' = new_y
     /\ cursor_x' = x2

(* ------------------------- completion provider ------------------------- *)
QUOTE == "\""
\* message contents the completion API may answer with; <<>> also stands for an
\* answer without content (None) and for a call that raised
ApiContents == { <<>>,
                 <<QUOTE, QUOTE>>,
                 <<" ", "a">>,
                 <<QUOTE, " ", "a", QUOTE>>,
                 <<QUOTE, NL, "a", QUOTE>> }

\* AICompleter.get_completion, the clean-up of a non-empty content
CleanCompletion(content) ==
  LET c == Strip(content)
  IN IF c # <<>> /\ c[1] = QUOTE /\ c[Len(c)] = QUOTE
       THEN SubSeq(c, 2, Len(c) - 1)
       ELSE c

\* AICompleter.is_available
is_available == client

\* get_completion without its rate limit
get_completion_unlimited(text, completion) ==
  IF ~client \/ Strip(text) = <<>>
    THEN /\ completion = <<>>
         /\ outcome' = "refused"
         /\ UNCHANGED last_request_time
    ELSE /\ last_request_time' = now
         /\ outcome' = IF completion = <<>> THEN "empty" ELSE "sent"
         /\ \E content \in ApiContents : completion = CleanCompletion(content)

\* get_completion testing the text alone before it asks the provider
get_completion_clientless(text, completion) ==
  IF Strip(text) = <<>>
    THEN /\ completion = <<>>
         /\ outcome' = "refused"
         /\ UNCHANGED last_request_time
    ELSE IF now - last_request_time < min_request_interval
      THEN /\ completion = <<>>
           /\ outcome' = "throttled"
           /\ UNCHANGED last_request_time
      ELSE /\ last_request_time' = now
           /\ outcome' = IF completion = <<>> THEN "empty" ELSE "sent"
           /\ \E content \in ApiContents : completion = CleanCompletion(content)

\* AICompleter.get_completion(text) returning completion (<<>> is None or "").
\* outcome: "refused" without a client or a text, "throttled" by the rate limit,
\* "empty" when the request was sent and gave nothing (the call raised, or the
\* answer had no content or an empty one), "sent" when it gave a completion
get_completion(text, completion) ==
  IF ~client \/ Strip(text) = <<>>
    THEN /\ completion = <<>>
         /\ outcome' = "refused"
         /\ UNCHANGED last_request_time
    ELSE IF now - last_request_time < min_request_interval
      THEN /\ completion = <<>>
           /\ outcome' = "throttled"
           /\ UNCHANGED last_request_time
      ELSE /\ last_request_time' = now
           /\ outcome' = IF completion = <<>> THEN "empty" ELSE "sent"
           /\ \E content \in ApiContents : completion = CleanCompletion(content)

\* every value get_completion can return
Completions == {CleanCompletion(content) : content \in ApiContents}

\* request_ai_completion returning, when the provider gave nothing, before it
\* has set requesting_completion back
request_ai_completion_stuck ==
  LET context == get_context_before_cursor(ContextMaxChars)
  IN IF ~ai_enabled \/ ~is_available \/ requesting_completion
          \/ Strip(context) = <<>>
       THEN /\ outcome' = "none"
            /\ UNCHANGED <<suggestion, suggestion_match_pos, last_request_time,
                           requesting_completion>>
       ELSE \E completion \in Completions :
              /\ get_completion(context, completion)
              /\ requesting_completion' = (completion = <<>>)
              /\ IF completion # <<>>
                   THEN suggestion' = completion /\ suggestion_match_pos' = 0
                   ELSE UNCHANGED <<suggestion, suggestion_match_pos>>

\* TextEditor.request_ai_completion
request_ai_completion ==
  LET context == get_context_before_cursor(ContextMaxChars)
  IN IF ~ai_enabled \/ ~is_available \/ requesting_completion
          \/ Strip(context) = <<>>
       THEN /\ outcome' = "none"
            /\ UNCHANGED <<suggestion, suggestion_match_pos, last_request_time,
                           requesting_completion>>
       ELSE /\ requesting_completion' = FALSE
            /\ \E completion \in Completions :
                 /\ get_completion(context, completion)
                 /\ IF completion # <<>>
                      THEN suggestion' = completion /\ suggestion_match_pos' = 0
                      ELSE UNCHANGED <<suggestion, suggestion_match_pos>>

(* ------------------------------- files --------------------------------- *)
\* save_file ending every line, the last one too, with the separator
SaveContentTerminated(ls) == Join(ls) \o <<NL>>

\* TextEditor.save_file: the text written
SaveContent(ls) == Join(ls)

\* load_file splitting an empty text into no line at all
LoadContentNoLine(content) == IF content # <<>> THEN Split(content) ELSE <<>>

\* TextEditor.load_file: the lines made of the text read
LoadContent(content) == IF content # <<>> THEN Split(content) ELSE << <<>> >>

\* save_file clearing modified before it writes, so also when the write fails
save_file_clears_early(io_ok) ==
  IF filename = NoName
    THEN /\ status_message' = "No filename specified"
         /\ outcome' = "no_filename"
         /\ UNCHANGED <<filename, modified>>
    ELSE IF io_ok
      THEN /\ modified' = FALSE
           /\ status_message' = "Saved"
           /\ outcome' = "saved"
           /\ UNCHANGED filename
      ELSE /\ modified' = FALSE
           /\ status_message' = "Error saving file"
           /\ outcome' = "save_failed"
           /\ UNCHANGED filename

\* TextEditor.save_file() as Ctrl+S calls it; io_ok: open and write succeed
save_file(io_ok) ==
  IF filename = NoName
    THEN /\ status_message' = "No filename specified"
         /\ outcome' = "no_filename"
         /\ UNCHANGED <<filename, modified>>
    ELSE IF io_ok
      THEN /\ modified' = FALSE
           /\ status_message' = "Saved"
           /\ outcome' = "saved"
           /\ UNCHANGED filename
      ELSE /\ status_message' = "Error saving file"
           /\ outcome' = "save_failed"
           /\ UNCHANGED <<filename, modified>>

\* the contents of the files the editor may be started on
FileContents == { <<>>, <<"a", NL>> }
\* the names of those files
FileNames == {"f.txt", "g.txt"}

\* load_file taking the new name before it opens the file
load_file_names_first(name, io_ok, content) ==
  IF io_ok
    THEN /\ lines' = LoadContent(content)
         /\ filename' = name
         /\ modified' = FALSE
         /\ status_message' = "Loaded"
         /\ outcome' = "loaded"
    ELSE /\ filename' = name
         /\ status_message' = "Error loading file"
         /\ outcome' = "load_failed"
         /\ UNCHANGED <<lines, modified>>

\* TextEditor.load_file(name); io_ok: open and read succeed, and give content
load_file(name, io_ok, content) ==
  IF io_ok
    THEN /\ lines' = LoadContent(content)
         /\ filename' = name
         /\ modified' = FALSE
         /\ status_message' = "Loaded"
         /\ outcome' = "loaded"
    ELSE /\ status_message' = "Error loading file"
         /\ outcome' = "load_failed"
         /\ UNCHANGED <<lines, filename, modified>>
(* --------------------------- construction ------------------------------ *)

\* TextEditor.__init__ and its load_file: started without a filename or on a
\* name that does not exist, on a file that cannot be read, or on a file
Init ==
  /\ cursor_y = 0
  /\ cursor_x = 0
  /\ suggestion = <<>>
  /\ suggestion_match_pos = 0
  /\ last_input_time = 0
  /\ ai_enabled = TRUE
  /\ requesting_completion = FALSE
  /\ client \in BOOLEAN
  /\ last_request_time = 0
  /\ now = StartTime
  /\ key = "none"
  /\ outcome = "none"
  /\ running = TRUE
  /\ modified = FALSE
  /\ \/ /\ filename \in {NoName, "f.txt"}
        /\ lines = << <<>> >>
        /\ status_message = ""
     \/ /\ filename = "f.txt"
        /\ lines = << <<>> >>
        /\ status_message = "Error loading file"
     \/ /\ filename = "f.txt"
        /\ \E content \in FileContents : lines = LoadContent(content)
        /\ status_message = "Loaded"

(* ----------------------------- handle_input ---------------------------- *)
\* handle_input read key k; what no key branch changes
Read(k) ==
  /\ running
  /\ key' = k
  /\ UNCHANGED <<client, now>>

\* the idle check firing as soon as the pause equals pause_delay
KeyIdleAtDelay ==
  /\ Read("idle")
  /\ IF ai_enabled /\ suggestion = <<>> /\ ~requesting_completion
          /\ now - last_input_time >= pause_delay_ms
          /\ last_input_time > 0
       THEN request_ai_completion
       ELSE /\ outcome' = "none"
            /\ UNCHANGED <<suggestion, suggestion_match_pos, last_request_time,
                           requesting_completion>>
  /\ UNCHANGED <<lines, cursor_y, cursor_x, last_input_time, ai_enabled,
                 modified, status_message, filename, running>>

\* the idle check writing the completion it fetched into the line at the
\* cursor
KeyIdleWrites ==
  /\ Read("idle")
  /\ IF ai_enabled /\ suggestion = <<>> /\ ~requesting_completion
          /\ now - last_input_time > pause_delay_ms
          /\ last_input_time > 0
       THEN /\ request_ai_completion
            /\ lines' = SetLine(lines, cursor_y,
                                Prefix(get_current_line, cursor_x) \o suggestion'
                                  \o Suffix(get_current_line, cursor_x))
       ELSE /\ outcome' = "none"
            /\ UNCHANGED <<lines, suggestion, suggestion_match_pos,
                           last_request_time, requesting_completion>>
  /\ UNCHANGED <<cursor_y, cursor_x, last_input_time, ai_enabled,
                 modified, status_message, filename, running>>

\* key == -1: the idle check
KeyIdle ==
  /\ Read("idle")
  /\ IF ai_enabled /\ suggestion = <<>> /\ ~requesting_completion
          /\ now - last_input_time > pause_delay_ms
          /\ last_input_time > 0
       THEN request_ai_completion
       ELSE /\ outcome' = "none"
            /\ UNCHANGED <<suggestion, suggestion_match_pos, last_request_time,
                           requesting_completion>>
  /\ UNCHANGED <<lines, cursor_y, cursor_x, last_input_time, ai_enabled,
                 modified, status_message, filename, running>>

\* Ctrl+X
KeyCtrlX ==
  /\ Read("ctrl_x")
  /\ IF modified
       THEN /\ status_message' = "Save changes? (^S to save, ^X again to exit)"
            /\ outcome' = "warned"
            /\ UNCHANGED running
       ELSE /\ running' = FALSE
            /\ outcome' = "exit"
            /\ UNCHANGED status_message
  /\ UNCHANGED <<lines, cursor_y, cursor_x, suggestion, suggestion_match_pos,
                 last_input_time, ai_enabled, requesting_completion, modified,
                 filename, last_request_time>>

\* Ctrl+S
KeyCtrlS ==
  /\ Read("ctrl_s")
  /\ \E io_ok \in BOOLEAN : save_file(io_ok)
  /\ UNCHANGED <<lines, cursor_y, cursor_x, suggestion, suggestion_match_pos,
                 last_input_time, ai_enabled, requesting_completion,
                 last_request_time, running>>

\* Ctrl+O
KeyCtrlO ==
  /\ Read("ctrl_o")
  /\ status_message' = "Open: (enter filename then press Enter)"
  /\ outcome' = "done"
  /\ UNCHANGED <<lines, cursor_y, cursor_x, suggestion, suggestion_match_pos,
                 last_input_time, ai_enabled, requesting_completion, modified,
                 filename, last_request_time, running>>

\* Ctrl+G toggling the flag and leaving the suggestion as it is
KeyCtrlGKeeps ==
  /\ Read("ctrl_g")
  /\ ai_enabled' = ~ai_enabled
  /\ status_message' = IF ai_enabled' THEN "AI autocomplete enabled"
                                      ELSE "AI autocomplete disabled"
  /\ outcome' = "done"
  /\ UNCHANGED <<lines, cursor_y, cursor_x, suggestion, suggestion_match_pos,
                 last_input_time, requesting_completion, modified, filename,
                 last_request_time, running>>

\* Ctrl+G
KeyCtrlG ==
  /\ Read("ctrl_g")
  /\ ai_enabled' = ~ai_enabled
  /\ status_message' = IF ai_enabled' THEN "AI autocomplete enabled"
                                      ELSE "AI autocomplete disabled"
  /\ IF ~ai_enabled' THEN suggestion' = <<>> ELSE UNCHANGED suggestion
  /\ outcome' = "done"
  /\ UNCHANGED <<lines, cursor_y, cursor_x, suggestion_match_pos,
                 last_input_time, requesting_completion, modified, filename,
                 last_request_time, running>>

\* Tab
KeyTab ==
  /\ Read("tab")
  /\ IF suggestion # <<>>
       THEN accept_suggestion
       ELSE /\ outcome' = "nothing"
            /\ UNCHANGED <<lines, cursor_x, modified, suggestion,
                           suggestion_match_pos>>
  /\ UNCHANGED <<cursor_y, last_input_time, ai_enabled, requesting_completion,
                 status_message, filename, last_request_time, running>>

\* Right arrow
KeyRight ==
  /\ Read("right")
  /\ IF suggestion # <<>>
       THEN accept_suggestion /\ UNCHANGED cursor_y
       ELSE move_cursor(0, 1) /\ outcome' = "moved" /\ UNCHANGED <<lines, modified>>
  /\ UNCHANGED <<last_input_time, ai_enabled, requesting_completion,
                 status_message, filename, last_request_time, running>>

\* the other arrows
KeyArrow(k, dy, dx) ==
  /\ Read(k)
  /\ move_cursor(dy, dx)
  /\ outcome' = "moved"
  /\ UNCHANGED <<lines, modified, last_input_time, ai_enabled,
                 requesting_completion, status_message, filename,
                 last_request_time, running>>

KeyUp == KeyArrow("up", -1, 0)
KeyDown == KeyArrow("down", 1, 0)
KeyLeft == KeyArrow("left", 0, -1)

\* Backspace
KeyBackspace ==
  /\ Read("backspace")
  /\ delete_char
  /\ UNCHANGED <<ai_enabled, requesting_completion, status_message, filename,
                 last_request_time, running>>

\* Enter
KeyEnter ==
  /\ Read("enter")
  /\ insert_newline
  /\ outcome' = "split"
  /\ UNCHANGED <<ai_enabled, requesting_completion, status_message, filename,
                 last_request_time, running>>

\* a printable character, 32 <= key <= 126
KeyChar(c) ==
  /\ Read(c)
  /\ insert_char(c)
  /\ UNCHANGED <<ai_enabled, requesting_completion, status_message, filename,
                 last_request_time, running>>

\* the clock advances between two calls of handle_input, up to limit readings
Tick(limit) ==
  /\ running
  /\ now < StartTime + limit * ClockStep
  /\ now' = now + ClockStep
  /\ UNCHANGED <<lines, cursor_y, cursor_x, suggestion, suggestion_match_pos,
                 last_input_time, ai_enabled, requesting_completion, modified,
                 status_message, filename, client, last_request_time, key,
                 outcome, running>>

(* --------------------------- specifications ---------------------------- *)
\* adding n characters keeps the buffer within the model's bounds
Fits(n) == TotalChars(lines) + n <= MaxChars

\* the editor under every key, from construction
Next ==
  \/ Tick(MaxTicks)
  \/ KeyIdle
  \/ KeyCtrlX
  \/ KeyCtrlS
  \/ KeyCtrlO
  \/ KeyCtrlG
  \/ Fits(Len(Suffix(suggestion, suggestion_match_pos))) /\ KeyTab
  \/ Fits(Len(Suffix(suggestion, suggestion_match_pos))) /\ KeyRight
  \/ KeyUp
  \/ KeyDown
  \/ KeyLeft
  \/ KeyBackspace
  \/ Len(lines) < MaxLines /\ KeyEnter
  \/ \E c \in TypedChars : Fits(1) /\ KeyChar(c)

Spec == Init /\ [][Next]_vars

\* the editor under the editing keys only: the user never presses a Ctrl key
NextEdit ==
  \/ Tick(MaxTicks)
  \/ KeyIdle
  \/ Fits(Len(Suffix(suggestion, suggestion_match_pos))) /\ KeyTab
  \/ Fits(Len(Suffix(suggestion, suggestion_match_pos))) /\ KeyRight
  \/ KeyUp
  \/ KeyDown
  \/ KeyLeft
  \/ KeyBackspace
  \/ Len(lines) < MaxLines /\ KeyEnter
  \/ \E c \in TypedChars : Fits(1) /\ KeyChar(c)

SpecEdit == Init /\ [][NextEdit]_vars
(* ------------------- direct calls of the editor's methods -------------- *)
\* a caller (the tests do so) invokes a method of TextEditor directly
Call(method) ==
  /\ running
  /\ key' = method
  /\ UNCHANGED <<client, now>>

CallInsertChar(c) ==
  /\ Call("insert_char")
  /\ insert_char(c)
  /\ UNCHANGED <<ai_enabled, requesting_completion, status_message, filename,
                 last_request_time, running>>

CallDeleteChar ==
  /\ Call("delete_char")
  /\ delete_char
  /\ UNCHANGED <<ai_enabled, requesting_completion, status_message, filename,
                 last_request_time, running>>

CallInsertNewline ==
  /\ Call("insert_newline")
  /\ insert_newline
  /\ outcome' = "split"
  /\ UNCHANGED <<ai_enabled, requesting_completion, status_message, filename,
                 last_request_time, running>>

CallMoveCursor(dy, dx) ==
  /\ Call("move_cursor")
  /\ move_cursor(dy, dx)
  /\ outcome' = "moved"
  /\ UNCHANGED <<lines, modified, last_input_time, ai_enabled,
                 requesting_completion, status_message, filename,
                 last_request_time, running>>

CallAcceptSuggestion ==
  /\ Call("accept_suggestion")
  /\ accept_suggestion
  /\ UNCHANGED <<cursor_y, last_input_time, ai_enabled, requesting_completion,
                 status_message, filename, last_request_time, running>>

CallRequestAiCompletion ==
  /\ Call("request_ai_completion")
  /\ request_ai_completion
  /\ UNCHANGED <<lines, cursor_y, cursor_x, last_input_time, ai_enabled,
                 modified, status_message, filename, running>>

Moves == (0 - MaxMove) .. MaxMove

\* the editor driven as the tests drive it, from construction: its methods
\* called directly, and handle_input fed the Tab key
NextCalls ==
  \/ \E c \in TypedChars : Fits(1) /\ CallInsertChar(c)
  \/ CallDeleteChar
  \/ Len(lines) < MaxLines /\ CallInsertNewline
  \/ \E dy \in Moves, dx \in Moves : CallMoveCursor(dy, dx)
  \/ Fits(Len(Suffix(suggestion, suggestion_match_pos))) /\ CallAcceptSuggestion
  \/ CallRequestAiCompletion
  \/ Fits(Len(Suffix(suggestion, suggestion_match_pos))) /\ KeyTab

SpecCalls == Init /\ [][NextCalls]_vars
(* ------------------------- saving and loading -------------------------- *)
\* a caller invokes save_file() without a name (the tests do so)
CallSaveFile ==
  /\ Call("save_file")
  /\ \E io_ok \in BOOLEAN : save_file(io_ok)
  /\ UNCHANGED <<lines, cursor_y, cursor_x, suggestion, suggestion_match_pos,
                 last_input_time, ai_enabled, requesting_completion,
                 last_request_time, running>>

\* a caller invokes load_file(name)
CallLoadFile ==
  /\ Call("load_file")
  /\ \E name \in FileNames, io_ok \in BOOLEAN, content \in FileContents :
       load_file(name, io_ok, content)
  /\ UNCHANGED <<cursor_y, cursor_x, suggestion, suggestion_match_pos,
                 last_input_time, ai_enabled, requesting_completion,
                 last_request_time, running>>

\* the editor edited, saved and loaded: the editing methods called directly,
\* save_file called directly and through Ctrl+S, and load_file called as
\* __init__ calls it, with the cursor at the origin
NextFiles ==
  \/ \E c \in TypedChars : Fits(1) /\ CallInsertChar(c)
  \/ CallDeleteChar
  \/ Len(lines) < MaxLines /\ CallInsertNewline
  \/ CallRequestAiCompletion
  \/ Fits(Len(Suffix(suggestion, suggestion_match_pos))) /\ CallAcceptSuggestion
  \/ KeyLeft
  \/ KeyUp
  \/ CallSaveFile
  \/ KeyCtrlS
  \/ cursor_y = 0 /\ cursor_x = 0 /\ CallLoadFile

SpecFiles == Init /\ [][NextFiles]_vars
(* ------------------- requests over a longer stretch of time ------------ *)
\* the editor over pauses long enough for the provider's rate limit to let a
\* second request through: the user types, accepts and pauses, and a caller
\* asks for a completion directly, as test_async_completion does
NextFetch ==
  \/ Tick(MaxWait)
  \/ KeyIdle
  \/ CallRequestAiCompletion
  \/ Fits(Len(Suffix(suggestion, suggestion_match_pos))) /\ KeyTab
  \/ \E c \in TypedChars : Fits(1) /\ KeyChar(c)

SpecFetch == Init /\ [][NextFetch]_vars
\* the same with the AI toggle: the user may switch AI off and on at any time
NextRate ==
  \/ NextFetch
  \/ KeyCtrlG

SpecRate == Init /\ [][NextRate]_vars
(* ------------------------- the accept example ------------------------- *)
\* a direct call of get_completion(text) that returns completion
CallGetCompletion(text, completion) ==
  /\ Call("get_completion")
  /\ get_completion(text, completion)
  /\ UNCHANGED <<lines, cursor_y, cursor_x, suggestion, suggestion_match_pos,
                 last_input_time, ai_enabled, requesting_completion, modified,
                 status_message, filename, running>>

\* the texts of the direct calls: empty, blank, a word
Texts == {<<>>, <<" ">>, <<"a">>}

\* typing, erasing, accepting, the idle check, the toggle and the clock, with
\* direct calls of the editor's request and of the provider
NextProvider ==
  \/ Tick(MaxTicks)
  \/ KeyIdle
  \/ KeyCtrlG
  \/ Fits(Len(Suffix(suggestion, suggestion_match_pos))) /\ KeyTab
  \/ KeyBackspace
  \/ \E c \in TypedChars : Fits(1) /\ KeyChar(c)
  \/ CallRequestAiCompletion
  \/ \E text \in Texts, completion \in Completions :
       CallGetCompletion(text, completion)

SpecProvider == Init /\ [][NextProvider]_vars

\* a direct call of get_context_before_cursor(max_chars); the call returns
\* a string, kept in outcome with the argument it was computed for
CallGetContext(max_chars) ==
  /\ Call("get_context_before_cursor")
  /\ outcome' = [max_chars |-> max_chars,
                 context |-> get_context_before_cursor(max_chars)]
  /\ UNCHANGED <<lines, cursor_y, cursor_x, suggestion, suggestion_match_pos,
                 last_input_time, ai_enabled, requesting_completion, modified,
                 status_message, filename, last_request_time, running>>

\* the max_chars values of the calls: the small ones and the default
ContextArgs == (0 .. MaxContext) \cup {ContextMaxChars}

\* files of more lines than the context holds; no two neighbours are alike
LongFiles ==
  { [i \in 1 .. (ContextLines + ExtraLines) |->
       IF i % 3 = k THEN <<"a", " ">> ELSE IF i % 3 = (k + 1) % 3 THEN <<"a">>
       ELSE <<>>] : k \in 0 .. 1 }

\* an editor constructed on a long file: load_file has run, cursor at origin
InitContext ==
  /\ lines \in LongFiles
  /\ cursor_y = 0
  /\ cursor_x = 0
  /\ suggestion = <<>>
  /\ suggestion_match_pos = 0
  /\ last_input_time = 0
  /\ ai_enabled = TRUE
  /\ requesting_completion = FALSE
  /\ client \in BOOLEAN
  /\ last_request_time = 0
  /\ now = StartTime
  /\ key = "none"
  /\ outcome = "none"
  /\ running = TRUE
  /\ modified = FALSE
  /\ filename = "f.txt"
  /\ status_message = "Loaded"

\* cursor moves over the long file and context calls
NextContext ==
  \/ \E dy \in Moves, dx \in Moves : CallMoveCursor(dy, dx)
  \/ \E m \in ContextArgs : CallGetContext(m)

SpecContext == InitContext /\ [][NextContext]_vars

ExampleLine == <<"S", "t", "a", "r", "t">>
ExampleSuggestion == <<" ", "w", "i", "t", "h", " ", "m", "o", "r", "e">>

\* the state test_suggestion_acceptance_with_wrapping builds before it accepts,
\* with the line and the suggestion of the accept example: a fresh editor, AI
\* switched off, lines, cursor and suggestion assigned
InitExample ==
  /\ lines = <<ExampleLine>>
  /\ cursor_y = 0
  /\ cursor_x = 5
  /\ suggestion = ExampleSuggestion
  /\ suggestion_match_pos = 0
  /\ last_input_time = 0
  /\ ai_enabled = FALSE
  /\ requesting_completion = FALSE
  /\ client \in BOOLEAN
  /\ last_request_time = 0
  /\ now = StartTime
  /\ key = "none"
  /\ outcome = "none"
  /\ running = TRUE
  /\ modified = FALSE
  /\ filename = NoName
  /\ status_message = ""

\* the example's editor under accept, the Tab and arrow keys, and cursor moves
NextExample ==
  \/ CallAcceptSuggestion
  \/ KeyTab
  \/ KeyRight
  \/ KeyLeft
  \/ \E dy \in Moves, dx \in Moves : CallMoveCursor(dy, dx)

SpecExample == InitExample /\ [][NextExample]_vars

(* ------------------------------- claims -------------------------------- *)
\* C1: after every operation of any sequence of insert_char, delete_char,
\* insert_newline, move_cursor(dy, dx) and accept_suggestion, from an empty or a
\* loaded buffer, the cursor is on a line of the buffer and its column is within
\* that line: 0 <= cursor_y < len(lines) and 0 <= cursor_x <= len(lines[cursor_y]).
CursorInvariant ==
  /\ cursor_y >= 0
  /\ cursor_y < Len(lines)
  /\ cursor_x >= 0
  /\ cursor_x <= Len(lines[cursor_y + 1])

\* C1 witness: a vertical move has landed on a shorter line than the one below
\* it, the column at the end of that shorter line
CursorClamped ==
  /\ key = "move_cursor"
  /\ Len(lines) = 2
  /\ cursor_y = 0
  /\ Len(lines[1]) < Len(lines[2])
  /\ cursor_x = Len(lines[1])
  /\ cursor_x > 0

\* C2: the buffer is never empty: len(lines) >= 1 in every reachable state, also
\* after loading an empty file and after any sequence of delete_char calls.
BufferNeverEmpty == Len(lines) >= 1

\* C2 witness: delete_char calls have emptied a buffer that was loaded from a file
BufferEmptied ==
  /\ key = "delete_char"
  /\ status_message = "Loaded"
  /\ modified
  /\ lines = << <<>> >>
\* the suggestion is Active with a character left to match
Matching == suggestion # <<>> /\ suggestion_match_pos < Len(suggestion)

\* the line under the cursor with text spliced in at the cursor column
Spliced(text) ==
  [lines EXCEPT ![cursor_y + 1] =
     SubSeq(@, 1, cursor_x) \o text \o SubSeq(@, cursor_x + 1, Len(@))]

\* C3: match advance: with the suggestion Active{T, k}, k < len(T), an
\* insert_char of the character T[k] leaves the suggestion text T and makes the
\* match position k + 1 (when k + 1 < len(T)).
MatchAdvance ==
  [][\A c \in TypedChars :
       (/\ CallInsertChar(c)
        /\ Matching
        /\ suggestion[suggestion_match_pos + 1] = c
        /\ suggestion_match_pos + 1 < Len(suggestion))
       => /\ suggestion' = suggestion
          /\ suggestion_match_pos' = suggestion_match_pos + 1]_vars

\* C3 witness: the character just typed matched, and more of the suggestion is left
MatchAdvanced ==
  /\ key = "insert_char"
  /\ outcome = "match"
  /\ suggestion_match_pos >= 1
  /\ suggestion_match_pos < Len(suggestion)
  /\ lines[cursor_y + 1][cursor_x] = suggestion[suggestion_match_pos]

\* C4: mismatch invalidation: with the suggestion Active{T, k}, k < len(T), an
\* insert_char of a character other than T[k] leaves the suggestion Empty
\* (suggestion == "" and match position 0), and the character is inserted.
MismatchInvalidates ==
  [][\A c \in TypedChars :
       (/\ CallInsertChar(c)
        /\ Matching
        /\ suggestion[suggestion_match_pos + 1] # c)
       => /\ suggestion' = <<>>
          /\ suggestion_match_pos' = 0
          /\ lines' = Spliced(<<c>>)
          /\ cursor_x' = cursor_x + 1
          /\ cursor_y' = cursor_y]_vars

\* C4 witness: the character just typed did not match and is in the buffer
Mismatched ==
  /\ key = "insert_char"
  /\ outcome = "mismatch"
  /\ suggestion = <<>>
  /\ cursor_x >= 1
  /\ lines[cursor_y + 1][cursor_x] \in TypedChars

\* C5: exhaustion collapses to Empty: no Active suggestion with
\* match_pos == len(text) is left behind by a matching keystroke, so none is
\* ever observable by a later idle tick, render or accept.
ExhaustionCollapses ==
  suggestion # <<>> => suggestion_match_pos < Len(suggestion)

\* C6: accept: with the suggestion Active{T, k}, accept_suggestion inserts
\* exactly T[k:] into the current line at the cursor column (the text before and
\* after the cursor and the other lines are kept), advances cursor_x by
\* len(T[k:]), leaves cursor_y alone and leaves the suggestion Empty, whether
\* or not T[k:] was empty.
AcceptInserts ==
  [][((CallAcceptSuggestion \/ KeyTab) /\ suggestion # <<>>)
       => LET remaining == SubSeq(suggestion, suggestion_match_pos + 1,
                                  Len(suggestion))
          IN /\ lines' = Spliced(remaining)
             /\ cursor_x' = cursor_x + Len(remaining)
             /\ cursor_y' = cursor_y
             /\ suggestion' = <<>>]_vars

\* C6 witness: an accept has inserted the rest of a partly retyped suggestion
\* between the text before and the text after the cursor
AcceptedInside ==
  /\ key = "accept_suggestion"
  /\ outcome = "accepted"
  /\ suggestion = <<>>
  /\ cursor_x >= 2
  /\ cursor_x < Len(lines[cursor_y + 1])

\* C8: idempotent accept: accept_suggestion, or the Tab key, with the
\* suggestion Empty leaves lines, cursor_y, cursor_x and modified unchanged.
AcceptEmptyUnchanged ==
  [][((CallAcceptSuggestion \/ KeyTab) /\ suggestion = <<>>)
       => UNCHANGED <<lines, cursor_y, cursor_x, modified>>]_vars

\* C8 witness: an accept found no suggestion, in an unmodified loaded buffer
AcceptedNothing ==
  /\ key \in {"accept_suggestion", "tab"}
  /\ outcome = "nothing"
  /\ ~modified
  /\ Len(lines) = 2

\* no line holds the line separator
NoSeparator(ls) == \A i \in 1..Len(ls) : \A j \in 1..Len(ls[i]) : ls[i][j] # NL

\* C9: save/load round trip: for every non-empty sequence of lines none of
\* which holds the line separator, loading (split on '\n', empty content giving
\* [""]) what saving wrote (join on '\n') gives the same sequence of lines.
RoundTrip ==
  (Len(lines) >= 1 /\ NoSeparator(lines))
    => LoadContent(SaveContent(lines)) = lines

\* C9 witness: a buffer of two lines, the last one empty, free of separators
TwoLinesLastEmpty ==
  /\ Len(lines) = 2
  /\ lines[1] # <<>>
  /\ lines[2] = <<>>
  /\ NoSeparator(lines)
  /\ modified
\* the state the accept example starts from
AtExample ==
  /\ lines = <<ExampleLine>>
  /\ cursor_y = 0
  /\ cursor_x = 5
  /\ suggestion = ExampleSuggestion
  /\ suggestion_match_pos = 0

\* C7 as written: from lines = ["Start"], cursor (0, 5) and suggestion
\* Active{" with more", 0}, accept yields lines = ["Start with more"], cursor
\* (0, 16) and suggestion Empty.
AcceptExampleColumn16 ==
  [][((CallAcceptSuggestion \/ KeyTab \/ KeyRight) /\ AtExample)
       => /\ lines' = <<ExampleLine \o ExampleSuggestion>>
          /\ cursor_y' = 0
          /\ cursor_x' = 16
          /\ suggestion' = <<>>]_vars

\* C7 amended: from lines = ["Start"], cursor (0, 5) and suggestion
\* Active{" with more", 0}, accept yields lines = ["Start with more"], cursor
\* (0, 15), the end of the line, and suggestion Empty.
AcceptExample ==
  [][((CallAcceptSuggestion \/ KeyTab \/ KeyRight) /\ AtExample)
       => /\ lines' = <<ExampleLine \o ExampleSuggestion>>
          /\ cursor_y' = 0
          /\ cursor_x' = 15
          /\ suggestion' = <<>>]_vars

\* C7 witness: the example's suggestion has been accepted
ExampleAccepted ==
  /\ outcome = "accepted"
  /\ lines = <<ExampleLine \o ExampleSuggestion>>
  /\ cursor_x = Len(ExampleLine \o ExampleSuggestion)
  /\ suggestion = <<>>

\* an idle check in the state the debounce claim describes: an edit has been
\* made, AI is enabled and available, no suggestion is active, no request is in
\* flight and the context before the cursor is not blank
DebounceArmed ==
  /\ last_input_time > 0
  /\ ai_enabled
  /\ client
  /\ suggestion = <<>>
  /\ ~requesting_completion
  /\ Strip(get_context_before_cursor(ContextMaxChars)) # <<>>

\* the handle_input call that made the state called get_completion
Fetched == outcome \in {"refused", "throttled", "empty", "sent"}

SentSinceEdit == last_input_time > 0 /\ last_request_time > last_input_time

\* C11: debounce fires once: after a fetch has been issued for an idle period,
\* no later idle check issues another fetch until a new edit resets the timer,
\* whatever the fetch returned (a suggestion, nothing, or a failure).
FetchOncePerPause ==
  [][(KeyIdle /\ SentSinceEdit) => ~Fetched']_vars

\* the step applied a completion result: the suggestion became a new text
ResultApplied == suggestion' # <<>> /\ suggestion' # suggestion

RequestFires ==
  /\ ai_enabled
  /\ is_available
  /\ ~requesting_completion
  /\ Strip(get_context_before_cursor(ContextMaxChars)) # <<>>

\* C13: non-blocking fetch: when request_ai_completion fires it returns to the
\* caller before the provider call completes, with requesting_completion true
\* on return; the result comes later from a background worker, so the call
\* itself leaves the suggestion as it was.
NonBlockingFetch ==
  [][(CallRequestAiCompletion /\ RequestFires)
       => /\ requesting_completion'
          /\ UNCHANGED <<suggestion, suggestion_match_pos>>]_vars

\* C15: a completion result is applied only when the suggestion is Empty: a
\* result that arrives while a suggestion is Active is ignored and leaves its
\* text and match position unchanged; a result applied from Empty yields
\* Active{text, 0}.
AppliedOnlyWhenEmpty ==
  [][(KeyIdle \/ CallRequestAiCompletion)
       => /\ suggestion # <<>> => UNCHANGED <<suggestion, suggestion_match_pos>>
          /\ (suggestion = <<>> /\ suggestion' # <<>>)
               => (suggestion' \in Completions /\ suggestion_match_pos' = 0)]_vars

\* C16: request preconditions: across every sequence of input events and idle
\* ticks, a provider fetch is issued only by an idle check, in a state where AI
\* is enabled, no suggestion is active, no request is in flight, at least one
\* edit has occurred since session start (last_input_time > 0) and the time
\* since the last edit exceeds pause_delay.  The last edit is no older than
\* last_input_time; and when the last key accepted a suggestion into the
\* buffer, that edit is no older than the request that fetched the suggestion.
FetchPreconditions ==
  [][((now' = now /\ Fetched') \/ last_request_time' # last_request_time)
       => /\ KeyIdle
          /\ ai_enabled
          /\ suggestion = <<>>
          /\ ~requesting_completion
          /\ last_input_time > 0
          /\ now - last_input_time > pause_delay_ms
          /\ outcome = "accepted" => now - last_request_time > pause_delay_ms]_vars

\* C17: saving with no filename set falls back to the filename "untitled.txt":
\* save_file() then goes on to write the file, sets filename to "untitled.txt"
\* and, the write succeeding, clears modified.
SaveFallsBackToUntitled ==
  [][((CallSaveFile \/ KeyCtrlS) /\ filename = NoName)
       => /\ filename' = "untitled.txt"
          /\ outcome' \in {"saved", "save_failed"}
          /\ outcome' = "saved" => ~modified']_vars

\* C18: modified flag: every operation that changes lines (insert_char,
\* effective delete_char, insert_newline, accept with a non-empty remainder)
\* sets modified; modified becomes false only through a successful save or
\* load; after a save that fails modified is unchanged (still true) and lines
\* and cursor are unchanged.
ModifiedFlag ==
  [][/\ (lines' # lines /\ ~CallLoadFile) => modified'
     /\ (modified /\ ~modified')
          => \/ (CallSaveFile \/ KeyCtrlS) /\ outcome' = "saved"
             \/ CallLoadFile /\ outcome' = "loaded"
     /\ ((CallSaveFile \/ KeyCtrlS) /\ outcome' = "save_failed")
          => UNCHANGED <<modified, lines, cursor_y, cursor_x>>]_vars

\* C18 witness: a save of an edited buffer has failed and left it modified
SaveFailedStillModified ==
  /\ key \in {"save_file", "ctrl_s"}
  /\ outcome = "save_failed"
  /\ status_message = "Error saving file"
  /\ modified
  /\ TotalChars(lines) > 0

\* C19: a failed load (I/O error opening or reading the file) leaves lines,
\* cursor, filename and modified exactly as they were before the load and only
\* sets a status message.
FailedLoadUnchanged ==
  [][(CallLoadFile /\ outcome' = "load_failed")
       => /\ status_message' = "Error loading file"
          /\ UNCHANGED <<lines, cursor_y, cursor_x, filename, modified,
                         suggestion, suggestion_match_pos, last_input_time,
                         ai_enabled, requesting_completion, running>>]_vars

\* C19 witness: a load has failed on an edited buffer that has no file name
LoadFailedOnEdited ==
  /\ key = "load_file"
  /\ outcome = "load_failed"
  /\ status_message = "Error loading file"
  /\ filename = NoName
  /\ modified
  /\ TotalChars(lines) > 0

\* the request made by the step gave no completion: it was not made at all
\* (blank context, no provider), the provider refused or rate-limited it, or the
\* call failed or answered nothing
NoCompletion == outcome \in {"none", "refused", "throttled", "empty"}

\* C20: silent fetch failure: when the provider call fails or yields nothing
\* (transport error, timeout, rate-limit rejection, empty result, blank
\* context), the suggestion stays Empty, lines, cursor, modified and the status
\* message are unchanged, the in-flight flag is cleared, and the editor keeps
\* running, so that subsequent input events are handled normally.
SilentFetchFailure ==
  [][((KeyIdle \/ CallRequestAiCompletion) /\ suggestion = <<>> /\ NoCompletion')
       => /\ suggestion' = <<>>
          /\ UNCHANGED <<lines, cursor_y, cursor_x, modified, status_message,
                         suggestion_match_pos, last_input_time, ai_enabled>>
          /\ ~requesting_completion'
          /\ running']_vars

\* C20 witness: an idle check has sent a request that gave nothing, and no
\* suggestion exists
FetchGaveNothing ==
  /\ key = "idle"
  /\ outcome = "empty"
  /\ last_request_time = now
  /\ suggestion = <<>>
  /\ modified

\* C21: quit with unsaved changes: Ctrl+X while modified shows a warning and
\* keeps the editor running with the buffer unchanged, and Ctrl+X pressed again
\* immediately afterwards exits the editor (handle_input returns False); with
\* modified false a single Ctrl+X exits.  Stated of the states the editor is
\* in: what a Ctrl+X pressed now does.
QuitAfterWarning ==
  /\ (running /\ modified /\ ~(key = "ctrl_x" /\ outcome = "warned"))
       => ENABLED (KeyCtrlX /\ running' /\ outcome' = "warned"
                     /\ UNCHANGED <<lines, cursor_y, cursor_x, modified>>)
  /\ (running /\ key = "ctrl_x" /\ outcome = "warned")
       => ENABLED (KeyCtrlX /\ ~running')
  /\ (running /\ ~modified) => ENABLED (KeyCtrlX /\ ~running')

\* C22: invalidation triggers: after every backspace event (one at buffer
\* start included), every Enter event, every Up, Down or Left arrow event (one
\* clamped at a buffer edge included) and every toggle that turns AI off, the
\* suggestion is Empty; a Right-arrow event while a suggestion is Active
\* accepts it instead of moving the cursor.
InvalidationTriggers ==
  /\ [](/\ (key \in {"backspace", "enter", "up", "down", "left"})
              => suggestion = <<>>
        /\ (key = "ctrl_g" /\ ~ai_enabled) => suggestion = <<>>)
  /\ [][(KeyRight /\ suggestion # <<>>)
          => LET remaining == SubSeq(suggestion, suggestion_match_pos + 1,
                                     Len(suggestion))
             IN /\ lines' = Spliced(remaining)
                /\ cursor_x' = cursor_x + Len(remaining)
                /\ cursor_y' = cursor_y
                /\ suggestion' = <<>>]_vars

\* C22 witness: AI has been toggled off while a partly retyped suggestion was
\* shown, and the suggestion is gone
ToggledOffWhileMatching ==
  /\ key = "ctrl_g"
  /\ ~ai_enabled
  /\ suggestion = <<>>
  /\ suggestion_match_pos > 0

\* C23: every operation that changes the buffer content (insert_char,
\* effective delete_char, insert_newline, accept_suggestion with a non-empty
\* remainder) updates the last-edit timestamp to the current time, so that the
\* debounce window restarts after each of them.
EditsRestartWindow ==
  [][lines' # lines => last_input_time' = now']_vars

\* C24: minimum inter-request interval: any two provider calls that reach the
\* completion API are at least 500 ms apart, for every sequence of edits,
\* toggles and idle ticks; a get_completion call made less than 500 ms after
\* the last one let through returns no suggestion, without contacting the API
\* and without moving last_request_time.
MinRequestInterval ==
  [][/\ last_request_time' # last_request_time
          => /\ now - last_request_time >= min_request_interval
             /\ last_request_time' = now
     /\ ((KeyIdle \/ CallRequestAiCompletion) /\ Fetched'
           /\ now - last_request_time < min_request_interval)
          => /\ outcome' = "throttled"
             /\ UNCHANGED <<last_request_time, suggestion,
                            suggestion_match_pos>>]_vars

\* C24 witness: AI was switched off and on again, and the idle check that
\* followed was turned away by the rate limit
ToggleThrottled ==
  /\ key = "idle"
  /\ outcome = "throttled"
  /\ status_message = "AI autocomplete enabled"
  /\ last_request_time > 0
  /\ now - last_request_time < min_request_interval

\* C25: delete_char: with col > 0 it removes exactly the character before the
\* cursor and decrements col; with col == 0 and row > 0 it replaces lines
\* row-1 and row by their concatenation, reduces the line count by one and
\* moves the cursor to (row-1, length of the previous line before the join);
\* at (0, 0) it changes nothing (lines, cursor, modified and the last-edit
\* timestamp are unchanged).
DeleteCharEffect ==
  [][CallDeleteChar
       => IF cursor_x > 0
            THEN /\ lines' = [lines EXCEPT ![cursor_y + 1] =
                                SubSeq(@, 1, cursor_x - 1)
                                  \o SubSeq(@, cursor_x + 1, Len(@))]
                 /\ cursor_x' = cursor_x - 1
                 /\ cursor_y' = cursor_y
            ELSE IF cursor_y > 0
              THEN /\ Len(lines') = Len(lines) - 1
                   /\ lines'[cursor_y] = lines[cursor_y] \o lines[cursor_y + 1]
                   /\ \A i \in 1..(cursor_y - 1) : lines'[i] = lines[i]
                   /\ \A i \in (cursor_y + 2)..Len(lines) : lines'[i - 1] = lines[i]
                   /\ cursor_y' = cursor_y - 1
                   /\ cursor_x' = Len(lines[cursor_y])
              ELSE UNCHANGED <<lines, cursor_y, cursor_x, modified,
                               last_input_time>>]_vars

\* C25 witness: a delete_char at the start of a line has joined two lines that
\* both hold text, and the cursor is at the seam
LinesJoined ==
  /\ key = "delete_char"
  /\ outcome = "joined"
  /\ cursor_x > 0
  /\ cursor_x < Len(lines[cursor_y + 1])

Clamp(v, lo, hi) == IF v < lo THEN lo ELSE IF v > hi THEN hi ELSE v

\* C27: move_cursor(dy, dx) never changes lines or modified; vertical
\* movement yields row = clamp(row + dy, 0, len(lines) - 1) and then
\* col = min(col, len(new line)); horizontal movement yields
\* col = clamp(col + dx, 0, len(line)) and never changes the row (no wrap to
\* the previous or next line at a line boundary).
MoveCursorEffect ==
  [][\A dy \in Moves, dx \in Moves :
       CallMoveCursor(dy, dx)
         => LET row == Clamp(cursor_y + dy, 0, Len(lines) - 1)
                col == IF cursor_x < Len(lines[row + 1])
                         THEN cursor_x ELSE Len(lines[row + 1])
            IN /\ UNCHANGED <<lines, modified>>
               /\ cursor_y' = row
               /\ dy = 0 => cursor_y' = cursor_y
               /\ cursor_x' = IF dx # 0
                                THEN Clamp(col + dx, 0, Len(lines[row + 1]))
                                ELSE col]_vars

\* C27 witness: a move has put the cursor at the start of the second line,
\* below a line that holds text
MovedToLineStart ==
  /\ key = "move_cursor"
  /\ outcome = "moved"
  /\ cursor_y = 1
  /\ cursor_x = 0
  /\ Len(lines[1]) > 0
  /\ Len(lines[2]) > 0

(* C28: get_context_before_cursor(max_chars) returns the last max_chars
   characters, or everything if shorter, of the join of at most the 10 lines
   before the cursor row and the current line cut at the cursor column; the
   result is never longer than max_chars, it ends the text before the cursor,
   and the call changes no editor state. *)
TextBeforeCursor ==
  LET rows == { i \in 1 .. cursor_y : i > cursor_y - 10 }
      before == SubSeq(lines, cursor_y - Cardinality(rows) + 1, cursor_y)
  IN Join(before \o <<SubSeq(lines[cursor_y + 1], 1, cursor_x)>>)

ContextContract ==
  [][key' = "get_context_before_cursor" =>
       LET m == outcome'.max_chars
           result == outcome'.context
           text == TextBeforeCursor
           n == Len(text)
       IN /\ result = IF n <= m THEN text ELSE SubSeq(text, n - m + 1, n)
          /\ Len(result) <= m
          /\ result = SubSeq(text, n - Len(result) + 1, n)
          /\ UNCHANGED <<lines, cursor_y, cursor_x, suggestion,
                         suggestion_match_pos, last_input_time, ai_enabled,
                         requesting_completion, modified, status_message,
                         filename, last_request_time, running>>]_vars

(* C29: without a configured provider (no client, is_available false)
   get_completion returns no completion whatever the text, and no key, idle
   check or call makes a provider request or fills the suggestion: the
   suggestion stays empty and last_request_time stays at its initial value. *)
NoProviderNoFetch ==
  /\ [](~client =>
         /\ ~is_available
         /\ suggestion = <<>>
         /\ last_request_time = 0
         /\ outcome \notin {"throttled", "empty", "sent"}
         /\ \A text \in Texts, completion \in Completions \ {<<>>} :
              ~ENABLED CallGetCompletion(text, completion))
  /\ [][~client /\ key' = "get_completion" => outcome' = "refused"]_vars

\* without a provider, an idle check past the pause on a non-blank context
IdleWithoutProvider ==
  /\ ~client
  /\ key = "idle"
  /\ ai_enabled
  /\ last_input_time > 0
  /\ now - last_input_time > pause_delay_ms
  /\ Strip(get_context_before_cursor(ContextMaxChars)) # <<>>

\* the last handler to run was an edit of the buffer: a typed character, an
\* effective Backspace, Enter, or an accepted suggestion
JustEdited ==
  outcome \in {"plain", "match", "mismatch", "overrun", "deleted", "joined",
               "split", "accepted"}

(* C30: liveness of suggestions: after an edit that leaves non-blank context
   before the cursor and no part of a suggestion still to be typed (there was
   none, it was retyped completely, or it was accepted), with AI enabled and a
   provider available and no further input, an idle check issues a provider
   fetch once the pause has passed. No idle check changes what a later one
   decides, so the first idle check after the pause is the one that must
   fetch. *)
IdleFetchAfterEdit ==
  [][(/\ KeyIdle
      /\ JustEdited
      /\ ai_enabled
      /\ is_available
      /\ Suffix(suggestion, suggestion_match_pos) = <<>>
      /\ Strip(get_context_before_cursor(ContextMaxChars)) # <<>>
      /\ now - last_input_time > pause_delay_ms)
       => Fetched']_vars

(* C31: match position bounds: in every reachable state
   0 <= suggestion_match_pos <= len(suggestion); so an empty suggestion has
   match position 0, also after AI is toggled off and after an exhausted
   suggestion is accepted. *)
MatchPosBounds ==
  /\ 0 <= suggestion_match_pos
  /\ suggestion_match_pos <= Len(suggestion)

\* the n characters of the current line just before the cursor
BeforeCursor(n) == SubSeq(lines[cursor_y + 1], cursor_x - n + 1, cursor_x)

(* C32: ghost-text alignment: in every state reached through input events
   where a suggestion is Active with text T and match position k, cursor_x >= k
   and the k characters of the current line just before the cursor are T[:k];
   and after an accept of T the len(T) characters just before the cursor are
   T. *)
GhostAligned ==
  /\ [](suggestion # <<>> =>
         /\ cursor_x >= suggestion_match_pos
         /\ BeforeCursor(suggestion_match_pos)
              = SubSeq(suggestion, 1, suggestion_match_pos))
  /\ [][key' \in {"tab", "right"} /\ suggestion # <<>> /\ suggestion' = <<>>
         => /\ cursor_x' >= Len(suggestion)
            /\ SubSeq(lines'[cursor_y' + 1], cursor_x' - Len(suggestion) + 1,
                      cursor_x') = suggestion]_vars

\* a suggestion is Active with its first character retyped and more to come,
\* on a line that holds text before the retyped part
GhostPartlyTyped ==
  /\ suggestion # <<>>
  /\ suggestion_match_pos >= 1
  /\ suggestion_match_pos < Len(suggestion)
  /\ cursor_x > suggestion_match_pos

(* C33: no stored line ever holds the line separator: from a loaded or empty
   buffer, after any sequence of insert_char, insert_newline, delete_char and
   accept_suggestion, whatever completion the provider returned, every element
   of lines is free of '\n', so loading what save_file writes gives the
   buffer back. *)
LinesFreeOfSeparator ==
  /\ NoSeparator(lines)
  /\ LoadContent(SaveContent(lines)) = lines

(* C34: while AI is disabled no suggestion exists: in every state reached
   through input events and idle checks, ai_enabled false implies the
   suggestion is empty and the last handler issued no provider fetch; no step
   taken while AI is disabled makes a provider request; and the Ctrl+G that
   enables AI again leaves the suggestion empty. *)
DisabledNoSuggestion ==
  /\ [](~ai_enabled => suggestion = <<>> /\ ~Fetched)
  /\ [][~ai_enabled => last_request_time' = last_request_time]_vars
  /\ [][key' = "ctrl_g" /\ ai_enabled' => suggestion' = <<>>]_vars

\* AI is off at an idle check that would otherwise fetch: a provider, an edit
\* longer ago than the pause, non-blank context
IdleWhileDisabled ==
  /\ ~ai_enabled
  /\ client
  /\ key = "idle"
  /\ last_input_time > 0
  /\ now - last_input_time > pause_delay_ms
  /\ Strip(get_context_before_cursor(ContextMaxChars)) # <<>>

\* the buffer and cursor left by taking out the character before the cursor
WithoutCharBefore ==
  LET line == lines[cursor_y + 1]
  IN << [lines EXCEPT ![cursor_y + 1] =
           SubSeq(line, 1, cursor_x - 1) \o SubSeq(line, cursor_x + 1, Len(line))],
        cursor_y, cursor_x - 1 >>

\* the buffer and cursor left by putting the cursor's line back at the end
\* of the line above it
WithoutBreakBefore ==
  LET above == lines[cursor_y]
      joined == above \o lines[cursor_y + 1]
  IN << [i \in 1 .. (Len(lines) - 1) |->
           IF i < cursor_y THEN lines[i]
           ELSE IF i = cursor_y THEN joined ELSE lines[i + 1]],
        cursor_y - 1, Len(above) >>

(* C35: Backspace undoes the previous insertion: insert_char(c) followed by
   delete_char(), and insert_newline() followed by delete_char(), restore
   lines and the cursor to their values before the pair. Stated on the two
   steps of each pair: the insertion takes the editor from s to a state t
   whose character (or line break) before the cursor, taken out, gives s; and
   delete_char called in t takes exactly that out. *)
BackspaceUndoes ==
  /\ [][key' = "insert_char"
         => WithoutCharBefore' = <<lines, cursor_y, cursor_x>>]_vars
  /\ [][key = "insert_char" /\ key' = "delete_char"
         => <<lines', cursor_y', cursor_x'>> = WithoutCharBefore]_vars
  /\ [][key' = "insert_newline"
         => WithoutBreakBefore' = <<lines, cursor_y, cursor_x>>]_vars
  /\ [][key = "insert_newline" /\ key' = "delete_char"
         => <<lines', cursor_y', cursor_x'>> = WithoutBreakBefore]_vars

\* delete_char has joined two lines and left the cursor inside the joined
\* line, as after a line break made inside a line
JoinedInsideLine ==
  /\ key = "delete_char"
  /\ outcome = "joined"
  /\ cursor_x > 0
  /\ cursor_x < Len(lines[cursor_y + 1])

(* C36: suggestions never touch the buffer on their own: an idle check, with
   the provider fetch it makes and the completion that comes back, leaves
   lines, cursor_y, cursor_x and modified unchanged; and the buffer changes
   only in the step of a typed character, Backspace, Enter, or a Tab or Right
   arrow that accepts the suggestion. *)
SuggestionsLeaveBuffer ==
  /\ [][key' = "idle" => UNCHANGED <<lines, cursor_y, cursor_x, modified>>]_vars
  /\ [][lines' # lines =>
          \/ key' \in TypedChars \cup {"backspace", "enter"}
          \/ key' \in {"tab", "right"} /\ outcome' = "accepted"]_vars

\* an idle check has fetched a suggestion for a line that holds text
IdleBroughtSuggestion ==
  /\ key = "idle"
  /\ outcome = "sent"
  /\ suggestion # <<>>
  /\ lines[cursor_y + 1] # <<>>

====
